---- MODULE Spec2Model ----
(***************************************************************************)
(* Approval workflow of the expense management system.                     *)
(*                                                                         *)
(* The repository holds two builds of the same single-page script: the     *)
(* current one (src/js/app.js) and an older one (src/unnamed/part_000).    *)
(* They share the data shape kept in localStorage (users, expenses, rules) *)
(* and differ in the approval engine.  The variable build says which       *)
(* script the page runs; the operators of the older build carry the        *)
(* suffix Legacy.                                                          *)
(*                                                                         *)
(* Step indices are 0-based as in the source: the step record of index i   *)
(* is steps[i + 1] of the TLA+ sequence.  Time stamps, comments, names,    *)
(* e-mail addresses, amounts and receipts take no part in the workflow and *)
(* are left out of the records.                                            *)
(***************************************************************************)
EXTENDS Integers, Sequences, FiniteSets, TLC

VARIABLES build, users, expenses, rules, customRoles, last, budget, tabs

vars == <<build, users, expenses, rules, customRoles, last, budget, tabs>>

\* last: the operation that ran last, the error it surfaced (the message it
\* threw or showed as an error toast, "" when it went through) and, for a role
\* removal, what its cascade met: the users holding the role, whether the role
\* was the designated approver role, and its occurrences in the step chain
NoCascade == [users |-> {}, designated |-> FALSE, steps |-> 0]
Done(op) == last' = [op |-> op, error |-> "", cascade |-> NoCascade]
Failed(op, message) == last' = [op |-> op, error |-> message, cascade |-> NoCascade]

(***************************************************************************)
(* Bounds of the model.                                                    *)
(***************************************************************************)
\* expenses submitted on top of the seeded ones
MaxNewExpenses == 1
\* admin overrides in a run
MaxOverrides == 1
\* decisions recorded in a run
MaxDecisions == 3
\* user and rule edits in a run that also records decisions
MaxAdminOps == 1
\* user and rule edits in a run that records no decision
MaxSetupOps == 2
\* custom roles added or removed in a run
MaxRoleOps == 2
\* decisions already stored at the active step when the evaluator is applied
\* to a stored expense
MaxStored == 2

(***************************************************************************)
(* Constants of the program.                                               *)
(***************************************************************************)
ROLES ==
  [EMPLOYEE |-> "EMPLOYEE", MANAGER |-> "MANAGER", FINANCE |-> "FINANCE",
   DIRECTOR |-> "DIRECTOR", ADMIN |-> "ADMIN", CFO |-> "CFO"]

BASE_ROLES ==
  <<ROLES.EMPLOYEE, ROLES.MANAGER, ROLES.FINANCE, ROLES.DIRECTOR, ROLES.ADMIN, ROLES.CFO>>

DEFAULT_RULES ==
  [steps |-> <<ROLES.MANAGER, ROLES.FINANCE, ROLES.DIRECTOR>>,
   percentageRule |-> [enabled |-> TRUE, threshold |-> 50],
   specificApproverRule |-> [enabled |-> TRUE, role |-> ROLES.CFO],
   hybrid |-> [enabled |-> TRUE]]

\* the two scripts of the repository
Builds == {"app", "legacy"}

(***************************************************************************)
(* Sequence helpers.                                                       *)
(***************************************************************************)
Range(s) == {s[i] : i \in DOMAIN s}

\* Array.prototype.filter with a membership test: the elements of s that are
\* not x, in their order
RECURSIVE FilterOut(_, _)
FilterOut(s, x) ==
  IF s = <<>> THEN <<>>
  ELSE IF Head(s) = x THEN FilterOut(Tail(s), x)
       ELSE <<Head(s)>> \o FilterOut(Tail(s), x)

\* Array.from(new Set(list)): first occurrences, in their order
RECURSIVE Dedup(_)
Dedup(s) ==
  IF s = <<>> THEN <<>>
  ELSE <<Head(s)>> \o FilterOut(Dedup(Tail(s)), Head(s))

(***************************************************************************)
(* JavaScript values handed around as a "role": a string, a step object or *)
(* null.  === between a string and an object is false.                     *)
(***************************************************************************)
JsNull == [t |-> "null"]
JsStr(s) == [t |-> "str", s |-> s]
JsObj(o) == [t |-> "obj", o |-> o]
StrictEq(v, s) == v.t = "str" /\ v.s = s

getCustomRoles == customRoles
getAllRoles == Dedup(BASE_ROLES \o getCustomRoles)

roleList(u) == u.roles
\* roleList(u).includes(role), role being any JavaScript value
hasRole(u, role) == \E r \in roleList(u) : StrictEq(role, r)

(***************************************************************************)
(* Seeded data (first run).                                                *)
(***************************************************************************)
SeedUsers ==
  [id \in {"u-admin", "u-manager", "u-emp", "u-fin", "u-dir", "u-cfo"} |->
     CASE id = "u-admin"   -> [roles |-> {ROLES.ADMIN},    managerId |-> ""]
       [] id = "u-manager" -> [roles |-> {ROLES.MANAGER},  managerId |-> ""]
       [] id = "u-emp"     -> [roles |-> {ROLES.EMPLOYEE}, managerId |-> "u-manager"]
       [] id = "u-fin"     -> [roles |-> {ROLES.FINANCE},  managerId |-> ""]
       [] id = "u-dir"     -> [roles |-> {ROLES.DIRECTOR}, managerId |-> ""]
       [] id = "u-cfo"     -> [roles |-> {ROLES.FINANCE, ROLES.CFO}, managerId |-> ""]]

\* steps: rules.steps.map(r => ({ role: r, approvals: [] }))
NewSteps(roles) == [i \in DOMAIN roles |-> [role |-> roles[i], approvals |-> <<>>]]

\* the three sample expenses; their ids are uuid()s, named here after their
\* descriptions
SeedExpenses ==
  << [id |-> "x-lunch", userId |-> "u-emp", status |-> "PENDING",
      approvals |-> [stepIndex |-> 0, steps |-> NewSteps(DEFAULT_RULES.steps)],
      history |-> <<[status |-> "PENDING", by |-> "u-emp"]>>],
     [id |-> "x-flight", userId |-> "u-emp", status |-> "APPROVED",
      approvals |-> [stepIndex |-> 3, steps |->
        << [role |-> ROLES.MANAGER,
            approvals |-> <<[userId |-> "u-manager", decision |-> "APPROVE"]>>],
           [role |-> ROLES.FINANCE,
            approvals |-> <<[userId |-> "u-fin", decision |-> "APPROVE"]>>],
           [role |-> ROLES.DIRECTOR,
            approvals |-> <<[userId |-> "u-dir", decision |-> "APPROVE"]>>] >>],
      history |-> <<[status |-> "APPROVED", by |-> "u-dir"]>>],
     [id |-> "x-cushion", userId |-> "u-emp", status |-> "REJECTED",
      approvals |-> [stepIndex |-> 0, steps |->
        << [role |-> ROLES.MANAGER,
            approvals |-> <<[userId |-> "u-manager", decision |-> "REJECT"]>>],
           [role |-> ROLES.FINANCE, approvals |-> <<>>],
           [role |-> ROLES.DIRECTOR, approvals |-> <<>>] >>],
      history |-> <<[status |-> "REJECTED", by |-> "u-manager"]>>] >>

(***************************************************************************)
(* Storage accessors.                                                      *)
(***************************************************************************)
getUsers == users
getRules == rules
getExpenses == expenses

\* expenses.find(e => e.id === expenseId): the index of the first match, 0 if none
FindExpense(list, expenseId) ==
  IF \E i \in DOMAIN list : list[i].id = expenseId
  THEN CHOOSE i \in DOMAIN list :
         /\ list[i].id = expenseId
         /\ \A j \in DOMAIN list : list[j].id = expenseId => i <= j
  ELSE 0

ExpenseIds == {expenses[i].id : i \in DOMAIN expenses}
ExpenseOf(expenseId) == expenses[FindExpense(expenses, expenseId)]

(***************************************************************************)
(* Approval logic of src/js/app.js.                                        *)
(***************************************************************************)
\* role = steps[idx] || null, steps being the expense's own step records
getCurrentStep(expense) ==
  LET steps == expense.approvals.steps
      idx == expense.approvals.stepIndex
  IN [idx |-> idx,
      role |-> IF idx + 1 \in DOMAIN steps THEN JsObj(steps[idx + 1]) ELSE JsNull]

\* a resolver without the special case of MANAGER
eligibleApproverIdsByRole(us, expense, role) ==
  IF role.t = "null" THEN {}
  ELSE {id \in DOMAIN us : hasRole(us[id], role)}

\* the ids eligible to decide at a step role of an expense
eligibleApproverIds(us, expense, role) ==
  IF role.t = "null" THEN {}
  ELSE IF StrictEq(role, ROLES.MANAGER)
       THEN IF expense.userId \in DOMAIN us /\ us[expense.userId].managerId # ""
            THEN {us[expense.userId].managerId}
            ELSE {}
       ELSE {id \in DOMAIN us : hasRole(us[id], role)}

\* a log that keeps its latest entry only
recordHistoryLatest(expense, status, by) ==
  [expense EXCEPT !.history = <<[status |-> status, by |-> by]>>]

recordHistory(expense, status, by) ==
  [expense EXCEPT !.history = Append(@, [status |-> status, by |-> by])]

\* approvals[approvals.length - 1]?.userId || ''
LastUserId(approvals) ==
  IF Len(approvals) > 0 THEN approvals[Len(approvals)].userId ELSE ""

\* an advance that leaves the expense where it is
AdvanceNever(expense, approvals) == expense

\* an advance that moves the cursor past the last step without concluding
AdvancePastEnd(expense, approvals) ==
  [expense EXCEPT !.approvals.stepIndex = @ + 1]

\* an advance that also passes over the step it arrives at
AdvanceSkipping(expense, approvals) ==
  LET next == expense.approvals.stepIndex + 2
  IN IF next >= Len(expense.approvals.steps)
     THEN recordHistory([expense EXCEPT !.status = "APPROVED"], "APPROVED",
                        LastUserId(approvals))
     ELSE [expense EXCEPT !.approvals.stepIndex = next]

\* the step-pass branch shared by the auto-skip and the unanimity case
Advance(expense, approvals) ==
  LET next == expense.approvals.stepIndex + 1
  IN IF next >= Len(expense.approvals.steps)
     THEN recordHistory([expense EXCEPT !.status = "APPROVED"], "APPROVED",
                        LastUserId(approvals))
     ELSE [expense EXCEPT !.approvals.stepIndex = next]

\* an evaluation that looks at the rejections after the step-pass tests
rulesEvalPassFirst(us, expense) ==
  LET cur == getCurrentStep(expense)
  IN IF cur.role.t = "null" THEN expense
     ELSE
       LET step == expense.approvals.steps[cur.idx + 1]
           approvals == step.approvals
           rejected == \E i \in DOMAIN approvals : approvals[i].decision = "REJECT"
           eligible == eligibleApproverIds(us, expense, cur.role)
           approvedUserIds ==
             {approvals[i].userId :
                i \in {j \in DOMAIN approvals : approvals[j].decision = "APPROVE"}}
           pass == \A id \in eligible : id \in approvedUserIds
       IN IF eligible = {} THEN Advance(expense, approvals)
          ELSE IF pass THEN Advance(expense, approvals)
          ELSE IF rejected
          THEN recordHistory([expense EXCEPT !.status = "REJECTED"], "REJECTED",
                             LastUserId(approvals))
          ELSE expense

rulesEval(us, expense) ==
  LET cur == getCurrentStep(expense)
  IN IF cur.role.t = "null" THEN expense
     ELSE
       LET step == expense.approvals.steps[cur.idx + 1]
           approvals == step.approvals
           rejected == \E i \in DOMAIN approvals : approvals[i].decision = "REJECT"
           eligible == eligibleApproverIds(us, expense, cur.role)
           approvedUserIds ==
             {approvals[i].userId :
                i \in {j \in DOMAIN approvals : approvals[j].decision = "APPROVE"}}
           pass == \A id \in eligible : id \in approvedUserIds
       IN IF rejected
          THEN recordHistory([expense EXCEPT !.status = "REJECTED"], "REJECTED",
                             LastUserId(approvals))
          ELSE IF eligible = {} THEN Advance(expense, approvals)
          ELSE IF pass THEN Advance(expense, approvals)
          ELSE expense

\* whether the approve and reject buttons of an expense are shown to a user
isUserApproverFor(us, expense, userId) ==
  LET role == getCurrentStep(expense).role
  IN IF role.t = "null" THEN FALSE
     ELSE \/ userId \in eligibleApproverIds(us, expense, role)
          \/ hasRole(us[userId], JsStr(ROLES.ADMIN))

\* the step record decisions are pushed to: 0 stands for null
approverEntry(expense) ==
  LET cur == getCurrentStep(expense)
  IN IF cur.role.t = "null" THEN 0 ELSE cur.idx + 1

(***************************************************************************)
(* Approval logic of the older script (src/unnamed/part_000).              *)
(***************************************************************************)
\* role = steps[idx] || null, steps being the role names of the current rules
getCurrentStepLegacy(r, expense) ==
  LET steps == r.steps
      idx == expense.approvals.stepIndex
  IN [idx |-> idx,
      role |-> IF idx + 1 \in DOMAIN steps THEN JsStr(steps[idx + 1]) ELSE JsNull]

\* expense.approvals.steps[idx], undefined (0) past the expense's own chain
approverEntryLegacy(r, expense) ==
  LET cur == getCurrentStepLegacy(r, expense)
  IN IF cur.role.t = "null" THEN 0
     ELSE IF cur.idx + 1 \in DOMAIN expense.approvals.steps THEN cur.idx + 1
     ELSE 0

isUserApproverForLegacy(us, r, expense, userId) ==
  LET role == getCurrentStepLegacy(r, expense).role
  IN IF role.t = "null" THEN FALSE
     ELSE IF StrictEq(role, ROLES.MANAGER)
     THEN /\ expense.userId \in DOMAIN us
          /\ us[expense.userId].managerId # ""
          /\ userId = us[expense.userId].managerId
     ELSE hasRole(us[userId], role) \/ hasRole(us[userId], JsStr(ROLES.ADMIN))

\* the evaluator letting a step pass on two approvals, whoever gave them
rulesEvalLegacyTwoApprovals(us, r, expense) ==
  LET k == approverEntryLegacy(r, expense)
  IN IF k = 0 THEN expense
     ELSE LET approvals == expense.approvals.steps[k].approvals
              approved == Cardinality({j \in DOMAIN approvals :
                                         approvals[j].decision = "APPROVE"})
              next == expense.approvals.stepIndex + 1
          IN IF \E j \in DOMAIN approvals : approvals[j].decision = "REJECT"
             THEN recordHistory([expense EXCEPT !.status = "REJECTED"], "REJECTED",
                                LastUserId(approvals))
             ELSE IF approved < 2 THEN expense
             ELSE IF next >= Len(r.steps)
             THEN recordHistory([expense EXCEPT !.status = "APPROVED"], "APPROVED",
                                LastUserId(approvals))
             ELSE [expense EXCEPT !.approvals.stepIndex = next]

clamp(n, min, max) ==
  LET lo == IF n > min THEN n ELSE min
  IN IF lo < max THEN lo ELSE max

\* the decisions of the whole chain in the order the CFO loop visits them
RECURSIVE AllApprovals(_)
AllApprovals(steps) ==
  IF steps = <<>> THEN <<>> ELSE Head(steps).approvals \o AllApprovals(Tail(steps))

\* APPROVE decisions of users who hold the designated role now
SpecificApprovals(us, r, expense) ==
  LET all == AllApprovals(expense.approvals.steps)
  IN {i \in DOMAIN all :
        /\ all[i].decision = "APPROVE"
        /\ all[i].userId \in DOMAIN us
        /\ hasRole(us[all[i].userId], JsStr(r.specificApproverRule.role))}

rulesEvalLegacy(us, r, expense) ==
  LET stepAt == approverEntryLegacy(r, expense)
  IN IF stepAt = 0 THEN expense
     ELSE
       LET all == AllApprovals(expense.approvals.steps)
           hits == SpecificApprovals(us, r, expense)
           approvals == expense.approvals.steps[stepAt].approvals
           total == Len(approvals)
           approved ==
             Cardinality({i \in DOMAIN approvals : approvals[i].decision = "APPROVE"})
           rejected ==
             Cardinality({i \in DOMAIN approvals : approvals[i].decision = "REJECT"})
           threshold ==
             IF r.percentageRule.threshold = 0 THEN 50 ELSE r.percentageRule.threshold
           pass ==
             IF r.percentageRule.enabled /\ total > 0
             THEN approved * 100 >= clamp(threshold, 1, 100) * total
             ELSE approved > 0
           next == expense.approvals.stepIndex + 1
       IN IF r.specificApproverRule.enabled /\ hits # {}
          THEN LET first == CHOOSE i \in hits : \A j \in hits : i <= j
               IN recordHistory(
                    [expense EXCEPT !.status = "APPROVED",
                                    !.approvals.stepIndex = Len(r.steps)],
                    "APPROVED", all[first].userId)
          ELSE IF rejected > 0
          THEN recordHistory([expense EXCEPT !.status = "REJECTED"], "REJECTED",
                             LastUserId(approvals))
          ELSE IF pass
          THEN IF next >= Len(r.steps)
               THEN recordHistory([expense EXCEPT !.status = "APPROVED"], "APPROVED",
                                  LastUserId(approvals))
               ELSE [expense EXCEPT !.approvals.stepIndex = next]
          ELSE expense

(***************************************************************************)
(* Inputs of the operations.                                               *)
(***************************************************************************)
\* ids uuid() hands to the expenses submitted after the seed
NewExpenseIds == <<"x-new1", "x-new2", "x-new3">>
\* an id no expense has
UnknownExpenseId == "x-none"
\* the decision argument: the two values of the approval form, a missing
\* value and a string that differs from 'APPROVE' in case only
DecisionInputs == {"APPROVE", "REJECT", "", "approve"}
\* the callers of approveOrReject
DeciderIds == {"u-manager", "u-fin", "u-dir", "u-cfo"}
\* the role names typed into the role form, after normalizeRoleName
RoleNameInputs == {"AUDIT", ROLES.CFO, ""}
\* the chains the steps editor holds when the rules form is saved: none, a
\* built-in pair, a custom role alone, a custom role twice among built-in ones
StepsInputs ==
  { <<>>, <<ROLES.MANAGER, ROLES.FINANCE>>, <<"AUDIT">>,
    <<"AUDIT", ROLES.FINANCE, "AUDIT", ROLES.MANAGER>> }
\* the users whose form is edited, and the check boxes that are toggled
EditIds == {"u-emp", "u-fin", "u-cfo"}
EditRoleInputs == {ROLES.FINANCE, ROLES.CFO, "AUDIT"}

\* What a run may still do.  A run takes one of four budgets: decisions and
\* overrides on the seeded configuration, decisions around an edit of the
\* configuration, edits of the configuration around a submission, or an
\* override around an edit, a submission and a company setup.  setup says
\* whether the run may still complete the company setup form.  calls
\* says whether the run calls approveOrReject at all (a failing call is not
\* counted in dec).
Budgets ==
  { [calls |-> 1, dec |-> MaxDecisions, ovr |-> MaxOverrides, admin |-> 0, role |-> 0,
     new |-> 0, setup |-> 0],
    [calls |-> 1, dec |-> MaxDecisions, ovr |-> 0, admin |-> MaxAdminOps, role |-> 0,
     new |-> 0, setup |-> 0],
    [calls |-> 0, dec |-> 0, ovr |-> 0, admin |-> MaxSetupOps, role |-> MaxRoleOps,
     new |-> MaxNewExpenses, setup |-> 0],
    [calls |-> 0, dec |-> 0, ovr |-> MaxOverrides, admin |-> MaxAdminOps, role |-> 0,
     new |-> MaxNewExpenses, setup |-> 1] }

\* Two tabs of one browser share the store.  A tab that runs approveOrReject
\* or adminOverride reads the list (getExpenses), works on its copy and writes
\* the whole copy back (setExpenses); tabs tells where each tab is in its call.
\* Under Spec every call runs in one step and tabs stays as it starts.
Tabs == {"tab-a", "tab-b"}
IdleTab ==
  [pc |-> "idle", call |-> [op |-> "", expenseId |-> "", by |-> "", arg |-> ""],
   local |-> <<>>, error |-> ""]

Init ==
  /\ build \in Builds
  /\ users = SeedUsers
  /\ expenses = SeedExpenses
  /\ rules = DEFAULT_RULES
  /\ customRoles = <<>>
  /\ last = [op |-> "seedIfNeeded", error |-> "", cascade |-> NoCascade]
  /\ budget \in Budgets
  /\ tabs = [t \in Tabs |-> IdleTab]

(***************************************************************************)
(* Expense submission: the chain is copied from the rules in force.        *)
(***************************************************************************)
addExpense(exp) == expenses' = <<exp>> \o getExpenses

\* a submission that evaluates the rules on the expense before it is stored
handleExpenseSubmitEvaluated(userId) ==
  LET n == Len(expenses) - Len(SeedExpenses)
      exp == [id |-> NewExpenseIds[n + 1], userId |-> userId, status |-> "PENDING",
              approvals |-> [stepIndex |-> 0, steps |-> NewSteps(getRules.steps)],
              history |-> <<[status |-> "PENDING", by |-> userId]>>]
  IN /\ budget.new > 0
     /\ n < Len(NewExpenseIds)
     /\ userId \in DOMAIN users
     /\ hasRole(users[userId], JsStr(ROLES.EMPLOYEE))
     /\ addExpense(IF build = "app" THEN rulesEval(getUsers, exp)
                   ELSE rulesEvalLegacy(getUsers, getRules, exp))
     /\ Done("handleExpenseSubmit")
     /\ budget' = [budget EXCEPT !.new = @ - 1]
     /\ UNCHANGED <<build, tabs, users, rules, customRoles>>

handleExpenseSubmit(userId) ==
  LET n == Len(expenses) - Len(SeedExpenses)
  IN /\ budget.new > 0
     /\ n < Len(NewExpenseIds)
     /\ userId \in DOMAIN users
     \* the "new expense" button is shown to employees only
     /\ hasRole(users[userId], JsStr(ROLES.EMPLOYEE))
     /\ addExpense([id |-> NewExpenseIds[n + 1], userId |-> userId,
                    status |-> "PENDING",
                    approvals |-> [stepIndex |-> 0, steps |-> NewSteps(getRules.steps)],
                    history |-> <<[status |-> "PENDING", by |-> userId]>>])
     /\ Done("handleExpenseSubmit")
     /\ budget' = [budget EXCEPT !.new = @ - 1]
     /\ UNCHANGED <<build, tabs, users, rules, customRoles>>

\* a push that takes every value but 'REJECT' for an approval
DecidedUnlessReject(expense, stepAt, userId, decision) ==
  LET entry == [userId |-> userId,
                decision |-> IF decision = "REJECT" THEN "REJECT" ELSE "APPROVE"]
      pushed == [expense EXCEPT !.approvals.steps[stepAt].approvals = Append(@, entry)]
  IN IF build = "app" THEN rulesEval(getUsers, pushed)
     ELSE rulesEvalLegacy(getUsers, getRules, pushed)

(***************************************************************************)
(* Decisions.                                                              *)
(***************************************************************************)
\* the expense after the decision was pushed and the rules were evaluated
Decided(expense, stepAt, userId, decision) ==
  LET entry == [userId |-> userId,
                decision |-> IF decision = "APPROVE" THEN "APPROVE" ELSE "REJECT"]
      pushed == [expense EXCEPT !.approvals.steps[stepAt].approvals = Append(@, entry)]
  IN IF build = "app" THEN rulesEval(getUsers, pushed)
     ELSE rulesEvalLegacy(getUsers, getRules, pushed)

\* the step record decisions are pushed to in the running script: 0 for none
ActiveStep(expense) ==
  IF build = "app" THEN approverEntry(expense)
  ELSE approverEntryLegacy(getRules, expense)

\* approveOrReject without its test of the status
approveOrRejectErrorAnyStatus(expenseId) ==
  LET i == FindExpense(getExpenses, expenseId)
  IN IF i = 0 THEN "Expense not found"
     ELSE IF ActiveStep(expenses[i]) = 0 THEN "No active approval step"
     ELSE ""

\* isUserApproverFor of the running script
IsUserApprover(expense, userId) ==
  IF build = "app" THEN isUserApproverFor(getUsers, expense, userId)
  ELSE isUserApproverForLegacy(getUsers, getRules, expense, userId)

\* the error approveOrReject throws before it changes anything, "" if none
approveOrRejectError(expenseId) ==
  LET i == FindExpense(getExpenses, expenseId)
  IN IF i = 0 THEN "Expense not found"
     ELSE IF expenses[i].status # "PENDING" THEN "Expense is not pending"
     ELSE IF ActiveStep(expenses[i]) = 0 THEN "No active approval step"
     ELSE ""

\* approveOrReject pushing and saving the decision before its test of the
\* status
approveOrRejectPushFirst(expenseId, userId, decision) ==
  LET i == FindExpense(getExpenses, expenseId)
      error == approveOrRejectError(expenseId)
  IN /\ budget.calls > 0
     /\ IF error = "Expense is not pending" /\ ActiveStep(expenses[i]) # 0
        THEN /\ Failed("approveOrReject", error)
             /\ expenses' =
                  [expenses EXCEPT ![i].approvals.steps[ActiveStep(expenses[i])].approvals =
                     Append(@, [userId |-> userId, decision |-> "REJECT"])]
             /\ UNCHANGED budget
        ELSE IF error # ""
        THEN /\ Failed("approveOrReject", error)
             /\ UNCHANGED <<expenses, budget>>
        ELSE /\ budget.dec > 0
             /\ Done("approveOrReject")
             /\ expenses' =
                  [expenses EXCEPT ![i] =
                     Decided(expenses[i], ActiveStep(expenses[i]), userId, decision)]
             /\ budget' = [budget EXCEPT !.dec = @ - 1]
     /\ UNCHANGED <<build, tabs, users, rules, customRoles>>

\* approveOrReject refusing callers who are neither eligible approvers of
\* the active step nor holders of ADMIN
approveOrRejectEligibleOnly(expenseId, userId, decision) ==
  LET i == FindExpense(getExpenses, expenseId)
      error == approveOrRejectError(expenseId)
      k == ActiveStep(expenses[i])
      allowed ==
        \/ userId \in eligibleApproverIds(getUsers, expenses[i],
                                          JsStr(expenses[i].approvals.steps[k].role))
        \/ userId \in DOMAIN users /\ hasRole(users[userId], JsStr(ROLES.ADMIN))
  IN /\ budget.calls > 0
     /\ IF error # ""
        THEN /\ Failed("approveOrReject", error)
             /\ UNCHANGED <<expenses, budget>>
        ELSE IF ~allowed
        THEN /\ Failed("approveOrReject", "Not an approver of this step")
             /\ UNCHANGED <<expenses, budget>>
        ELSE /\ budget.dec > 0
             /\ Done("approveOrReject")
             /\ expenses' =
                  [expenses EXCEPT ![i] =
                     Decided(expenses[i], ActiveStep(expenses[i]), userId, decision)]
             /\ budget' = [budget EXCEPT !.dec = @ - 1]
     /\ UNCHANGED <<build, tabs, users, rules, customRoles>>

\* an accepted call: the decision argument as it was passed is kept beside
\* the outcome
Accepted(decision) ==
  last' = [op |-> "approveOrReject", error |-> "", cascade |-> NoCascade,
           decision |-> decision]

approveOrReject(expenseId, userId, decision) ==
  LET i == FindExpense(getExpenses, expenseId)
      error == approveOrRejectError(expenseId)
  IN /\ budget.calls > 0
     /\ IF error # ""
        THEN /\ Failed("approveOrReject", error)
             /\ UNCHANGED <<expenses, budget>>
        ELSE /\ budget.dec > 0
             /\ Accepted(decision)
             /\ expenses' =
                  [expenses EXCEPT ![i] =
                     Decided(expenses[i], ActiveStep(expenses[i]), userId, decision)]
             /\ budget' = [budget EXCEPT !.dec = @ - 1]
     /\ UNCHANGED <<build, tabs, users, rules, customRoles>>

(***************************************************************************)
(* Admin override.                                                         *)
(***************************************************************************)
\* a cursor put after the configured chain, whatever the expense's own chain
ConcludedIndexOfRules(e) == Len(getRules.steps)

\* the cursor of a concluded chain: the expense's own length in app.js,
\* the length of the current rules in the older script
ConcludedIndex(e) ==
  IF build = "app" THEN Len(e.approvals.steps) ELSE Len(getRules.steps)

adminOverride(expenseId, status, adminId) ==
  LET i == FindExpense(getExpenses, expenseId)
  IN /\ budget.ovr > 0
     /\ IF i = 0
        THEN /\ Failed("adminOverride", "Expense not found")
             /\ UNCHANGED <<expenses, budget>>
        ELSE /\ expenses' =
                  [expenses EXCEPT ![i] =
                     recordHistory(
                       [expenses[i] EXCEPT
                          !.status = status,
                          !.approvals.stepIndex = ConcludedIndex(expenses[i])],
                       status, adminId)]
             /\ Done("adminOverride")
             /\ budget' = [budget EXCEPT !.ovr = @ - 1]
     /\ UNCHANGED <<build, tabs, users, rules, customRoles>>

\* the override buttons are shown to users holding ADMIN or CFO
OverrideCallers ==
  {id \in DOMAIN users :
     hasRole(users[id], JsStr(ROLES.ADMIN)) \/ hasRole(users[id], JsStr(ROLES.CFO))}

(***************************************************************************)
(* Company setup form of the login page.                                   *)
(***************************************************************************)
\* the e-mail addresses of the users: the seeded ones, and the one of the
\* admin the setup form creates
userEmail(id) ==
  CASE id = "u-admin"   -> "admin@ems.local"
    [] id = "u-manager" -> "manager@ems.local"
    [] id = "u-emp"     -> "employee@ems.local"
    [] id = "u-fin"     -> "finance@ems.local"
    [] id = "u-dir"     -> "director@ems.local"
    [] id = "u-cfo"     -> "cfo@ems.local"
    [] OTHER            -> "owner@ems.local"

\* String.prototype.toLowerCase on the addresses of the model
toLowerCase(str) == IF str = "Admin@EMS.local" THEN "admin@ems.local" ELSE str

\* the addresses typed into the setup form, and the id of the admin it creates
SetupEmails == {"Admin@EMS.local", "owner@ems.local"}
NewAdminId == "u-owner"
newAdmin == [roles |-> {ROLES.ADMIN}, managerId |-> ""]

\* app.js replaces the users by the new admin and clears the expenses and
\* the custom roles; the older script only adds the admin
handleCompanySetup(email) ==
  /\ budget.setup > 0
  /\ IF build = "app"
     THEN IF \E id \in DOMAIN users : toLowerCase(userEmail(id)) = toLowerCase(email)
          THEN /\ Failed("handleCompanySetup",
                         "Email already exists. Please use a different email.")
               /\ UNCHANGED <<users, expenses, customRoles, budget>>
          ELSE /\ users' = [id \in {NewAdminId} |-> newAdmin]
               /\ expenses' = <<>>
               /\ customRoles' = <<>>
               /\ Done("handleCompanySetup")
               /\ budget' = [budget EXCEPT !.setup = @ - 1]
     ELSE \* no test of the address there: the model types the one that
          \* userEmail gives the new admin
          /\ toLowerCase(email) = userEmail(NewAdminId)
          /\ users' = [id \in DOMAIN users \cup {NewAdminId} |->
                         IF id = NewAdminId THEN newAdmin ELSE users[id]]
          /\ Done("handleCompanySetup")
          /\ budget' = [budget EXCEPT !.setup = @ - 1]
          /\ UNCHANGED <<expenses, customRoles>>
  /\ UNCHANGED <<build, tabs, rules>>

(***************************************************************************)
(* Rules form.                                                             *)
(***************************************************************************)
\* getStepsFromEditor: the rows of the editor, whose options are the roles
\* that exist
getStepsFromEditor == {c \in StepsInputs : Range(c) \subseteq Range(getAllRoles)}

\* the submit handler of the rules form in app.js
\* a submit handler that saves the editor's rows even when there are none
bindRulesFormAnySteps(pct, threshold, spec, specRole, hyb, steps) ==
  /\ build = "app"
  /\ budget.admin > 0
  /\ specRole \in Range(getAllRoles)
  /\ rules' =
       [steps |-> steps,
        percentageRule |->
          [enabled |-> pct, threshold |-> clamp(threshold, 1, 100)],
        specificApproverRule |-> [enabled |-> spec, role |-> specRole],
        hybrid |-> [enabled |-> hyb]]
  /\ Done("bindRulesForm")
  /\ budget' = [budget EXCEPT !.admin = @ - 1]
  /\ UNCHANGED <<build, tabs, users, expenses, customRoles>>

bindRulesForm(pct, threshold, spec, specRole, hyb, steps) ==
  /\ build = "app"
  /\ budget.admin > 0
  /\ specRole \in Range(getAllRoles)
  /\ IF Len(steps) = 0
     THEN /\ Failed("bindRulesForm", "Add at least one approval step before saving.")
          /\ UNCHANGED <<rules, budget>>
     ELSE /\ rules' =
               [steps |-> steps,
                percentageRule |->
                  [enabled |-> pct, threshold |-> clamp(threshold, 1, 100)],
                specificApproverRule |-> [enabled |-> spec, role |-> specRole],
                hybrid |-> [enabled |-> hyb]]
          /\ Done("bindRulesForm")
          /\ budget' = [budget EXCEPT !.admin = @ - 1]
  /\ UNCHANGED <<build, tabs, users, expenses, customRoles>>

\* the submit handler of the rules form in the older script: no steps editor
bindRulesFormLegacy(pct, threshold, spec, hyb) ==
  /\ build = "legacy"
  /\ budget.admin > 0
  /\ rules' =
       [rules EXCEPT
          !.percentageRule = [enabled |-> pct, threshold |-> clamp(threshold, 1, 100)],
          !.specificApproverRule.enabled = spec,
          !.hybrid.enabled = hyb]
  /\ Done("bindRulesForm")
  /\ budget' = [budget EXCEPT !.admin = @ - 1]
  /\ UNCHANGED <<build, tabs, users, expenses, customRoles>>

\* the check boxes of the rules form, and a box after box `which` was toggled
RuleBoxes == {"pct", "spec", "hyb"}
Ticked(which, box, value) == IF which = box THEN ~value ELSE value

(***************************************************************************)
(* User form (edit of an existing user).                                   *)
(***************************************************************************)
\* the options of the manager select: none, or a user holding MANAGER
ManagerOptions ==
  {""} \cup {id \in DOMAIN users : hasRole(users[id], JsStr(ROLES.MANAGER))}

\* a save that re-evaluates the pending expenses: one whose active step has
\* no eligible approver left moves on
userFormSubmitReevaluate(id, roles, managerId) ==
  LET saved == [users EXCEPT ![id] = [roles |-> roles, managerId |-> managerId]]
      left(e) == eligibleApproverIds(saved, e,
                   JsStr(e.approvals.steps[e.approvals.stepIndex + 1].role))
      moved(e) ==
        IF e.status # "PENDING" \/ left(e) # {} THEN e
        ELSE IF e.approvals.stepIndex + 1 >= Len(e.approvals.steps)
             THEN [e EXCEPT !.status = "APPROVED"]
             ELSE [e EXCEPT !.approvals.stepIndex = @ + 1]
  IN /\ budget.admin > 0
     /\ id \in DOMAIN users
     /\ roles \subseteq Range(getAllRoles)
     /\ managerId \in ManagerOptions
     /\ users' = saved
     /\ expenses' = [i \in DOMAIN expenses |-> moved(expenses[i])]
     /\ Done("userFormSubmit")
     /\ budget' = [budget EXCEPT !.admin = @ - 1]
     /\ UNCHANGED <<build, tabs, rules, customRoles>>

userFormSubmit(id, roles, managerId) ==
  /\ budget.admin > 0
  /\ id \in DOMAIN users
  /\ roles \subseteq Range(getAllRoles)
  /\ managerId \in ManagerOptions
  /\ users' = [users EXCEPT ![id] = [roles |-> roles, managerId |-> managerId]]
  /\ Done("userFormSubmit")
  /\ budget' = [budget EXCEPT !.admin = @ - 1]
  /\ UNCHANGED <<build, tabs, expenses, rules, customRoles>>

\* the rows whose delete button is clicked, and the users signed in as admin
DeleteIds == {"u-manager", "u-dir", "u-admin"}
currentUsers == {id \in DOMAIN users : hasRole(users[id], JsStr(ROLES.ADMIN))}

\* a deletion that leaves the manager references as they are
usersTableDeleteKeepRefs(me, id) ==
  /\ budget.admin > 0
  /\ id \in DOMAIN users
  /\ me \in currentUsers
  /\ me # id
  /\ users' = [x \in DOMAIN users \ {id} |-> users[x]]
  /\ Done("deleteUser")
  /\ budget' = [budget EXCEPT !.admin = @ - 1]
  /\ UNCHANGED <<build, tabs, expenses, rules, customRoles>>

\* the delete button of a row of the users table: app.js refuses the row of
\* the signed-in user (a row it renders only for another session); the older
\* script asks for a confirmation, given here
usersTableDelete(me, id) ==
  /\ budget.admin > 0
  /\ id \in DOMAIN users
  /\ me \in currentUsers
  /\ IF build = "app" /\ me = id
     THEN /\ Failed("deleteUser", "You can't delete your own account.")
          /\ UNCHANGED <<users, budget>>
     ELSE /\ users' =
               [x \in DOMAIN users \ {id} |->
                  [users[x] EXCEPT !.managerId = IF @ = id THEN "" ELSE @]]
          /\ Done("deleteUser")
          /\ budget' = [budget EXCEPT !.admin = @ - 1]
  /\ UNCHANGED <<build, tabs, expenses, rules, customRoles>>

\* the role set after one check box was toggled
Toggle(roles, r) == IF r \in roles THEN roles \ {r} ELSE roles \cup {r}

(***************************************************************************)
(* Roles management (app.js only).                                         *)
(***************************************************************************)
setCustomRoles(list) == customRoles' = Dedup(list)

handleAddRole(role) ==
  /\ build = "app"
  /\ budget.role > 0
  /\ IF role = ""
     THEN /\ Failed("handleAddRole", "Enter a role name")
          /\ UNCHANGED <<customRoles, budget>>
     ELSE IF role \in Range(BASE_ROLES)
     THEN /\ Failed("handleAddRole", "This is already a built-in role")
          /\ UNCHANGED <<customRoles, budget>>
     ELSE IF role \in Range(getCustomRoles)
     THEN /\ Failed("handleAddRole", "Role already exists")
          /\ UNCHANGED <<customRoles, budget>>
     ELSE /\ setCustomRoles(Append(getCustomRoles, role))
          /\ Done("handleAddRole")
          /\ budget' = [budget EXCEPT !.role = @ - 1]
  /\ UNCHANGED <<build, tabs, users, expenses, rules>>

\* the cascade without the reset of an emptied chain
RulesWithoutNoReset(r, role) ==
  [r EXCEPT
     !.specificApproverRule.role = IF @ = role THEN ROLES.CFO ELSE @,
     !.steps = FilterOut(@, role)]

\* the rules after the cascade of removeRole
RulesWithout(r, role) ==
  LET kept == FilterOut(r.steps, role)
  IN [r EXCEPT
        !.specificApproverRule.role = IF @ = role THEN ROLES.CFO ELSE @,
        !.steps = IF Len(kept) = 0
                  THEN <<ROLES.MANAGER, ROLES.FINANCE, ROLES.DIRECTOR>>
                  ELSE kept]

\* what removeRole notes in last
Removed(role) ==
  last' = [op |-> "removeRole", error |-> "",
           cascade |->
             [users |-> {id \in DOMAIN users : role \in users[id].roles},
              designated |-> (rules.specificApproverRule.role = role),
              steps |-> Len(rules.steps) - Len(FilterOut(rules.steps, role))]]

\* a removal that also rewrites the chains of the stored expenses
removeRoleInExpenses(role) ==
  /\ setCustomRoles(FilterOut(getCustomRoles, role))
  /\ users' = [id \in DOMAIN users |-> [users[id] EXCEPT !.roles = @ \ {role}]]
  /\ rules' = RulesWithout(getRules, role)
  /\ expenses' =
       [i \in DOMAIN expenses |->
          [expenses[i] EXCEPT
             !.approvals.steps =
               SelectSeq(@, LAMBDA step : step.role # role)]]
  /\ Removed(role)
  /\ budget' = [budget EXCEPT !.role = @ - 1]
  /\ UNCHANGED <<build, tabs>>

\* a removal that leaves the users as they are
removeRoleKeepUsers(role) ==
  /\ setCustomRoles(FilterOut(getCustomRoles, role))
  /\ rules' = RulesWithout(getRules, role)
  /\ Removed(role)
  /\ budget' = [budget EXCEPT !.role = @ - 1]
  /\ UNCHANGED <<build, tabs, users, expenses>>

removeRole(role) ==
  /\ setCustomRoles(FilterOut(getCustomRoles, role))
  /\ users' = [id \in DOMAIN users |-> [users[id] EXCEPT !.roles = @ \ {role}]]
  /\ rules' = RulesWithout(getRules, role)
  /\ Removed(role)
  /\ budget' = [budget EXCEPT !.role = @ - 1]
  /\ UNCHANGED <<build, tabs, expenses>>

\* a click handler that removes whatever chip was clicked
rolesListClickAnyChip(role) ==
  /\ build = "app"
  /\ budget.role > 0
  /\ role \in Range(getAllRoles)
  /\ removeRole(role)

\* the click handler of the roles list: built-in chips are not removable
rolesListClick(role) ==
  /\ build = "app"
  /\ budget.role > 0
  /\ role \in Range(getAllRoles)
  /\ IF role \in Range(BASE_ROLES)
     THEN /\ Done("rolesListClick")
          /\ UNCHANGED <<build, tabs, users, expenses, rules, customRoles, budget>>
     ELSE removeRole(role)

(***************************************************************************)
(* Next-state relation.                                                    *)
(***************************************************************************)
Next ==
  \/ \E userId \in DOMAIN users : handleExpenseSubmit(userId)
  \/ \E expenseId \in ExpenseIds \cup {UnknownExpenseId}, userId \in DeciderIds,
        decision \in DecisionInputs :
       approveOrReject(expenseId, userId, decision)
  \/ \E expenseId \in ExpenseIds \cup {UnknownExpenseId},
        status \in {"APPROVED", "REJECTED"}, adminId \in OverrideCallers :
       adminOverride(expenseId, status, adminId)
  \* the rules form saved with one check box toggled, or another designated role
  \/ \E box \in RuleBoxes :
       bindRulesForm(Ticked(box, "pct", rules.percentageRule.enabled),
                     rules.percentageRule.threshold,
                     Ticked(box, "spec", rules.specificApproverRule.enabled),
                     rules.specificApproverRule.role,
                     Ticked(box, "hyb", rules.hybrid.enabled), rules.steps)
  \/ \E specRole \in {ROLES.CFO, "AUDIT"} :
       bindRulesForm(rules.percentageRule.enabled, rules.percentageRule.threshold,
                     rules.specificApproverRule.enabled, specRole,
                     rules.hybrid.enabled, rules.steps)
  \* the rules form saved with another chain in the steps editor
  \/ \E steps \in getStepsFromEditor :
       bindRulesForm(rules.percentageRule.enabled, rules.percentageRule.threshold,
                     rules.specificApproverRule.enabled,
                     rules.specificApproverRule.role, rules.hybrid.enabled, steps)
  \* the rules form saved with one check box toggled and every row removed
  \/ \E box \in RuleBoxes :
       bindRulesForm(Ticked(box, "pct", rules.percentageRule.enabled),
                     rules.percentageRule.threshold,
                     Ticked(box, "spec", rules.specificApproverRule.enabled),
                     rules.specificApproverRule.role,
                     Ticked(box, "hyb", rules.hybrid.enabled), <<>>)
  \/ \E box \in RuleBoxes :
       bindRulesFormLegacy(Ticked(box, "pct", rules.percentageRule.enabled),
                           rules.percentageRule.threshold,
                           Ticked(box, "spec", rules.specificApproverRule.enabled),
                           Ticked(box, "hyb", rules.hybrid.enabled))
  \* the user form saved with one check box toggled, or another manager
  \/ \E id \in EditIds \cap DOMAIN users, r \in EditRoleInputs :
       userFormSubmit(id, Toggle(users[id].roles, r), users[id].managerId)
  \/ \E id \in EditIds \cap DOMAIN users, managerId \in ManagerOptions :
       userFormSubmit(id, users[id].roles, managerId)
  \/ \E me \in currentUsers, id \in DeleteIds : usersTableDelete(me, id)
  \/ \E role \in RoleNameInputs : handleAddRole(role)
  \/ \E role \in Range(getAllRoles) : rolesListClick(role)
  \/ \E email \in SetupEmails : handleCompanySetup(email)

Spec == Init /\ [][Next]_vars

(***************************************************************************)
(* Two tabs: the calls split at their read and their write of the store.   *)
(***************************************************************************)
\* the calls a tab makes: a decision or an override on an expense of the list
TabCalls ==
  {[op |-> "approveOrReject", expenseId |-> x, by |-> u, arg |-> d] :
     x \in ExpenseIds, u \in {"u-manager", "u-fin"}, d \in {"APPROVE", "REJECT"}}
  \cup
  {[op |-> "adminOverride", expenseId |-> x, by |-> a, arg |-> st] :
     x \in ExpenseIds, a \in {"u-admin"}, st \in {"APPROVED", "REJECTED"}}

\* const expenses = getExpenses(): the tab parses its own copy of the list
tabGetExpenses(t, call) ==
  /\ tabs[t].pc = "idle"
  /\ tabs' = [tabs EXCEPT ![t] =
                [pc |-> "read", call |-> call, local |-> getExpenses, error |-> ""]]
  /\ UNCHANGED <<build, users, expenses, rules, customRoles, last, budget>>

\* the error the call throws on the tab's copy, "" if none
tabError(call, list) ==
  LET i == FindExpense(list, call.expenseId)
  IN IF i = 0 THEN "Expense not found"
     ELSE IF call.op = "adminOverride" THEN ""
     ELSE IF list[i].status # "PENDING" THEN "Expense is not pending"
     ELSE IF ActiveStep(list[i]) = 0 THEN "No active approval step"
     ELSE ""

\* the tab's copy after the call has changed the expense it found
tabResult(call, list) ==
  LET i == FindExpense(list, call.expenseId)
  IN [list EXCEPT ![i] =
        IF call.op = "approveOrReject"
        THEN Decided(list[i], ActiveStep(list[i]), call.by, call.arg)
        ELSE recordHistory(
               [list[i] EXCEPT !.status = call.arg,
                               !.approvals.stepIndex = ConcludedIndex(list[i])],
               call.arg, call.by)]

\* the rest of the call, up to setExpenses(expenses): the whole copy is
\* written over the stored list
tabSetExpenses(t) ==
  LET call == tabs[t].call
      list == tabs[t].local
      error == tabError(call, list)
  IN /\ tabs[t].pc = "read"
     /\ IF error # ""
        THEN /\ Failed(call.op, error)
             /\ tabs' = [tabs EXCEPT ![t].pc = "done", ![t].error = error]
             /\ UNCHANGED expenses
        ELSE /\ Done(call.op)
             /\ expenses' = tabResult(call, list)
             /\ tabs' = [tabs EXCEPT ![t].pc = "done", ![t].local = tabResult(call, list)]
     /\ UNCHANGED <<build, users, rules, customRoles, budget>>

\* the seeded store, with submissions still to come
TabsInit ==
  /\ build \in Builds
  /\ users = SeedUsers
  /\ expenses = SeedExpenses
  /\ rules = DEFAULT_RULES
  /\ customRoles = <<>>
  /\ last = [op |-> "seedIfNeeded", error |-> "", cascade |-> NoCascade]
  /\ budget = [calls |-> 0, dec |-> 0, ovr |-> 0, admin |-> 0, role |-> 0,
               new |-> MaxNewExpenses, setup |-> 0]
  /\ tabs = [t \in Tabs |-> IdleTab]

\* submissions come before the two calls
TabsNext ==
  \/ \E userId \in DOMAIN users :
       /\ \A t \in Tabs : tabs[t].pc = "idle"
       /\ handleExpenseSubmit(userId)
  \/ \E t \in Tabs, call \in TabCalls : tabGetExpenses(t, call)
  \/ \E t \in Tabs : tabSetExpenses(t)

TabsSpec == TabsInit /\ [][TabsNext]_vars

(***************************************************************************)
(* The evaluator applied to stored expenses: approveOrReject on a pending   *)
(* expense whose active step already holds decisions.                      *)
(***************************************************************************)
\* the decision lists a stored step may hold
StoredEntries ==
  {[userId |-> u, decision |-> d] :
     u \in {"u-manager", "u-fin"}, d \in {"APPROVE", "REJECT"}}
StoredLists == UNION {[1..n -> StoredEntries] : n \in 0..MaxStored}

\* a pending expense of the seeded employee at cursor idx, with list stored at
\* its active step
StoredExpense(idx, list) ==
  [id |-> "x-lunch", userId |-> "u-emp", status |-> "PENDING",
   approvals |->
     [stepIndex |-> idx,
      steps |-> [NewSteps(DEFAULT_RULES.steps) EXCEPT ![idx + 1].approvals = list]],
   history |-> <<[status |-> "PENDING", by |-> "u-emp"]>>]

EvalInit ==
  /\ build \in Builds
  /\ users = SeedUsers
  /\ \E idx \in 0..(Len(DEFAULT_RULES.steps) - 1), list \in StoredLists :
       expenses = <<StoredExpense(idx, list)>>
  /\ \E pct \in BOOLEAN, hyb \in BOOLEAN, spec \in BOOLEAN :
       rules = [DEFAULT_RULES EXCEPT !.percentageRule.enabled = pct,
                                     !.hybrid.enabled = hyb,
                                     !.specificApproverRule.enabled = spec]
  /\ customRoles = <<>>
  /\ last = [op |-> "seedIfNeeded", error |-> "", cascade |-> NoCascade]
  /\ budget = [calls |-> 1, dec |-> 1, ovr |-> 0, admin |-> 0, role |-> 0,
               new |-> 0, setup |-> 0]
  /\ tabs = [t \in Tabs |-> IdleTab]

EvalNext ==
  \E userId \in {"u-manager", "u-fin"}, decision \in {"APPROVE", "REJECT"} :
    approveOrReject("x-lunch", userId, decision)

EvalSpec == EvalInit /\ [][EvalNext]_vars

(***************************************************************************)
(* The approval flow alone: users, roles and rules stay as seeded, nobody   *)
(* rejects or overrides, and the eligible approvers of the active steps     *)
(* keep approving.                                                          *)
(***************************************************************************)
\* the expenses of the flow: the seeded pending one and the submitted ones
LiveExpenseIds == {"x-lunch"} \cup Range(NewExpenseIds)

LiveInit ==
  /\ build \in Builds
  /\ users = SeedUsers
  /\ expenses = SeedExpenses
  /\ \E pct \in BOOLEAN, hyb \in BOOLEAN, spec \in BOOLEAN :
       rules = [DEFAULT_RULES EXCEPT !.percentageRule.enabled = pct,
                                     !.hybrid.enabled = hyb,
                                     !.specificApproverRule.enabled = spec]
  /\ customRoles = <<>>
  /\ last = [op |-> "seedIfNeeded", error |-> "", cascade |-> NoCascade]
  /\ budget = [calls |-> 1,
               dec |-> Len(DEFAULT_RULES.steps) * (1 + MaxNewExpenses),
               ovr |-> 0, admin |-> 0, role |-> 0,
               new |-> MaxNewExpenses, setup |-> 0]
  /\ tabs = [t \in Tabs |-> IdleTab]

\* the approve button of the approval modal, pressed by a user who is among
\* the approvers of the active step of a pending expense
LiveApprove(expenseId, userId) ==
  /\ expenseId \in ExpenseIds
  /\ ExpenseOf(expenseId).status = "PENDING"
  /\ ActiveStep(ExpenseOf(expenseId)) # 0
  /\ userId \in eligibleApproverIds(users, ExpenseOf(expenseId),
         JsStr(ExpenseOf(expenseId).approvals.steps[
                 ActiveStep(ExpenseOf(expenseId))].role))
  /\ approveOrReject(expenseId, userId, "APPROVE")

LiveNext ==
  \/ \E userId \in DOMAIN users : handleExpenseSubmit(userId)
  \/ \E expenseId \in LiveExpenseIds, userId \in DeciderIds :
       LiveApprove(expenseId, userId)

\* every approver who stays able to approve an expense does so in the end
LiveSpec ==
  /\ LiveInit
  /\ [][LiveNext]_vars
  /\ \A expenseId \in LiveExpenseIds, userId \in DeciderIds :
       WF_vars(LiveApprove(expenseId, userId))

(***************************************************************************)
(* Vocabulary of the properties.                                           *)
(***************************************************************************)
\* the role names of an expense's own chain
StepRoles(e) == [k \in DOMAIN e.approvals.steps |-> e.approvals.steps[k].role]

\* this step is a call of approveOrReject that recorded a decision on the
\* expense stored at index i
Recorded(i) ==
  /\ last'.op = "approveOrReject"
  /\ last'.error = ""
  /\ i \in DOMAIN expenses
  /\ expenses'[i] # expenses[i]

\* the step the expense at index i was at before the call, and the decision
\* the call appended to it
StepOf(i) == expenses[i].approvals.stepIndex + 1
NewDecision(i) ==
  LET a == expenses'[i].approvals.steps[StepOf(i)].approvals IN a[Len(a)]

\* eligibleApprovers(expense, step.role): the owner's manager for MANAGER, the
\* holders of the role otherwise
EligibleAt(e, k) == eligibleApproverIds(users, e, JsStr(e.approvals.steps[k].role))

\* the users with an APPROVE decision at step k of e
ApprovedAt(e, k) ==
  LET a == e.approvals.steps[k].approvals
  IN {a[j].userId : j \in {n \in DOMAIN a : a[n].decision = "APPROVE"}}

\* the step of the expense at index i was passed by this call
StepPassed(i) ==
  \/ expenses'[i].approvals.stepIndex > expenses[i].approvals.stepIndex
  \/ expenses'[i].status = "APPROVED"

Holds(userId, role) == userId \in DOMAIN users /\ role \in users[userId].roles

Terminal(e) == e.status \in {"APPROVED", "REJECTED"}

(***************************************************************************)
(* C1  Unanimity.                                                          *)
(***************************************************************************)
\* C1: with hybrid.enabled = false, an APPROVE recorded at the active step
\* passes the step (the cursor moves on, or the expense concludes APPROVED) if
\* and only if every eligible approver of the step's role has an APPROVE
\* decision at that step.
C1_Unanimity ==
  [][\A i \in DOMAIN expenses :
       (Recorded(i) /\ ~rules.hybrid.enabled /\ NewDecision(i).decision = "APPROVE")
         => (StepPassed(i) <=>
               EligibleAt(expenses[i], StepOf(i))
                 \subseteq ApprovedAt(expenses'[i], StepOf(i)))]_vars

(***************************************************************************)
(* C2  Reject short-circuit.                                               *)
(***************************************************************************)
\* C2: whenever a REJECT is recorded at the active step of a PENDING expense,
\* the resulting status is REJECTED, whatever was approved before and whatever
\* the rule settings are.
C2_RejectShortCircuit ==
  [][\A i \in DOMAIN expenses :
       (Recorded(i) /\ NewDecision(i).decision = "REJECT")
         => expenses'[i].status = "REJECTED"]_vars

\* the chain of e holds an APPROVE by a user who holds the designated role
SpecificHit(e) ==
  LET all == AllApprovals(e.approvals.steps)
  IN \E j \in DOMAIN all :
       /\ all[j].decision = "APPROVE"
       /\ Holds(all[j].userId, rules.specificApproverRule.role)

\* C2, amended: a REJECT recorded at the active step of a PENDING expense
\* makes it REJECTED, except in the older script when specificApproverRule is
\* enabled and the chain already holds an APPROVE by a user who now holds the
\* designated role: the expense is then APPROVED.
C2_RejectUnlessSpecificHit ==
  [][\A i \in DOMAIN expenses :
       (Recorded(i) /\ NewDecision(i).decision = "REJECT")
         => expenses'[i].status =
              IF /\ build = "legacy"
                 /\ rules.specificApproverRule.enabled
                 /\ SpecificHit(expenses[i])
              THEN "APPROVED"
              ELSE "REJECTED"]_vars

\* the seeded pending expense was rejected at its second step, after an
\* APPROVE at the first
C2_Witness ==
  /\ last.op = "approveOrReject"
  /\ last.error = ""
  /\ \E i \in DOMAIN expenses :
       LET e == expenses[i]
       IN /\ e.id = "x-lunch"
          /\ e.status = "REJECTED"
          /\ e.approvals.stepIndex = 1
          /\ Len(e.approvals.steps[1].approvals) = 1
          /\ e.approvals.steps[1].approvals[1].decision = "APPROVE"
          /\ Len(e.approvals.steps[2].approvals) = 1
          /\ e.approvals.steps[2].approvals[1].decision = "REJECT"

(***************************************************************************)
(* C3  Specific-approver override.                                         *)
(***************************************************************************)
\* C3: when specificApproverRule.enabled, an APPROVE recorded at any step by a
\* user holding specificApproverRule.role concludes the expense APPROVED with
\* the cursor at the length of its chain.
C3_SpecificApproverOverride ==
  [][\A i \in DOMAIN expenses :
       ( /\ Recorded(i)
         /\ rules.specificApproverRule.enabled
         /\ NewDecision(i).decision = "APPROVE"
         /\ Holds(NewDecision(i).userId, rules.specificApproverRule.role) )
         => /\ expenses'[i].status = "APPROVED"
            /\ expenses'[i].approvals.stepIndex = Len(expenses[i].approvals.steps)]_vars

(***************************************************************************)
(* C4  Terminal states reject decisions.                                   *)
(***************************************************************************)
\* C4: once an expense is APPROVED or REJECTED, a call of approveOrReject on
\* it fails with 'Expense is not pending', and no call of approveOrReject
\* changes the stored expense.
C4_TerminalRejectsDecisions ==
  /\ [](\A i \in DOMAIN expenses :
          Terminal(expenses[i])
            => approveOrRejectError(expenses[i].id) = "Expense is not pending")
  /\ [][\A i \in DOMAIN expenses :
          (Terminal(expenses[i]) /\ last'.op = "approveOrReject")
            => /\ Len(expenses') = Len(expenses)
               /\ expenses'[i] = expenses[i]]_vars

\* a call failed with 'Expense is not pending' when no expense was pending
\* any more, the seeded pending one having been concluded in between
C4_Witness ==
  /\ last.op = "approveOrReject"
  /\ last.error = "Expense is not pending"
  /\ \A i \in DOMAIN expenses : Terminal(expenses[i])
  /\ \E i \in DOMAIN expenses : Len(expenses[i].history) > 1

(***************************************************************************)
(* C5  Snapshot immutability.                                              *)
(***************************************************************************)
\* C5: no step that changes rules.steps (a save of the rules form, the
\* cascade of a role removal) changes the length or the role sequence of the
\* chain of an expense that exists.
C5_SnapshotImmutability ==
  [][rules'.steps # rules.steps
       => /\ Len(expenses') = Len(expenses)
          /\ \A i \in DOMAIN expenses :
               /\ expenses'[i].id = expenses[i].id
               /\ StepRoles(expenses'[i]) = StepRoles(expenses[i])]_vars

\* the rules form replaced the chain an expense was submitted under
C5_Witness ==
  /\ last.op = "bindRulesForm"
  /\ last.error = ""
  /\ rules.steps = <<"AUDIT">>
  /\ \E i \in DOMAIN expenses :
       /\ expenses[i].id = NewExpenseIds[1]
       /\ StepRoles(expenses[i]) = <<ROLES.MANAGER, ROLES.FINANCE>>

(***************************************************************************)
(* C6  Status and cursor.                                                  *)
(***************************************************************************)
\* C6: an expense is PENDING if and only if its cursor is below the length of
\* its chain and no REJECT decision is recorded in the chain.
C6_StatusCursor ==
  \A i \in DOMAIN expenses :
    LET e == expenses[i]
        all == AllApprovals(e.approvals.steps)
    IN e.status = "PENDING"
         <=> /\ e.approvals.stepIndex < Len(e.approvals.steps)
             /\ \A j \in DOMAIN all : all[j].decision # "REJECT"

(***************************************************************************)
(* C7  Scenario A.                                                         *)
(***************************************************************************)
\* C7: chain [MANAGER, FINANCE, DIRECTOR], hybrid disabled, owner with manager
\* M, no decision by a designated specific approver: an APPROVE by M moves
\* the cursor to 1; then an APPROVE by a FINANCE holder moves it to 2; then an
\* APPROVE by a DIRECTOR holder concludes APPROVED with the cursor at 3.
C7_ScenarioA ==
  [][\A i \in DOMAIN expenses :
       LET e == expenses[i]
           after == expenses'[i]
           d == NewDecision(i)
           M == IF e.userId \in DOMAIN users THEN users[e.userId].managerId ELSE ""
           first == e.approvals.steps[1].approvals
           second == e.approvals.steps[2].approvals
       IN ( /\ Recorded(i)
            /\ StepRoles(e) = <<ROLES.MANAGER, ROLES.FINANCE, ROLES.DIRECTOR>>
            /\ ~rules.hybrid.enabled
            /\ d.decision = "APPROVE"
            /\ ~Holds(d.userId, rules.specificApproverRule.role) )
          => /\ (e.approvals.stepIndex = 0 /\ M # "" /\ d.userId = M)
                  => (after.status = "PENDING" /\ after.approvals.stepIndex = 1)
             /\ ( /\ e.approvals.stepIndex = 1
                  /\ first = <<[userId |-> M, decision |-> "APPROVE"]>>
                  /\ Holds(d.userId, ROLES.FINANCE) )
                  => (after.status = "PENDING" /\ after.approvals.stepIndex = 2)
             /\ ( /\ e.approvals.stepIndex = 2
                  /\ first = <<[userId |-> M, decision |-> "APPROVE"]>>
                  /\ Len(second) = 1
                  /\ second[1].decision = "APPROVE"
                  /\ Holds(second[1].userId, ROLES.FINANCE)
                  /\ Holds(d.userId, ROLES.DIRECTOR) )
                  => (after.status = "APPROVED" /\ after.approvals.stepIndex = 3)]_vars

(***************************************************************************)
(* C8  Auto-skip.                                                          *)
(***************************************************************************)
\* C8: a step whose eligible-approver set is empty is passed without a
\* decision: right after its submission an expense is not at such a step.
C8_AutoSkip ==
  [][last'.op = "handleExpenseSubmit"
       => LET e == expenses'[1]
              k == e.approvals.stepIndex + 1
          IN (e.status = "PENDING" /\ k \in DOMAIN e.approvals.steps)
               => EligibleAt(e, k) # {}]_vars

\* C8, amended: no step is passed without a decision.  A submission stores
\* the expense PENDING at step 0 with no decision, whatever the eligible sets
\* are, and leaves the stored expenses alone; a step whose eligible-approver
\* set is empty is passed by the first APPROVE recorded at it.
C8_SkipOnDecisionOnly ==
  [][/\ last'.op = "handleExpenseSubmit"
          => LET e == expenses'[1]
             IN /\ e.status = "PENDING"
                /\ e.approvals.stepIndex = 0
                /\ AllApprovals(e.approvals.steps) = <<>>
                /\ StepRoles(e) = rules.steps
                /\ Tail(expenses') = expenses
     /\ \A i \in DOMAIN expenses :
          ( /\ Recorded(i)
            /\ NewDecision(i).decision = "APPROVE"
            /\ EligibleAt(expenses[i], StepOf(i)) = {} )
            => StepPassed(i)]_vars

\* an employee with no manager submitted under the chain [MANAGER, FINANCE]:
\* the expense is at the MANAGER step
C8_Witness ==
  /\ last.op = "handleExpenseSubmit"
  /\ LET e == expenses[1]
     IN /\ StepRoles(e) = <<ROLES.MANAGER, ROLES.FINANCE>>
        /\ users[e.userId].managerId = ""
        /\ EligibleAt(e, 1) = {}
        /\ e.approvals.stepIndex = 0
        /\ e.status = "PENDING"

(***************************************************************************)
(* C9  Role cascade on the step chain.                                     *)
(***************************************************************************)
\* C9: the removal of a custom role X leaves in rules.steps the steps other
\* than X, in their order; if none is left, rules.steps is
\* [MANAGER, FINANCE, DIRECTOR].
C9_RoleCascadeSteps ==
  [][last'.op = "removeRole"
       => \E X \in Range(customRoles) \ Range(BASE_ROLES) :
            LET Other(r) == r # X
                kept == SelectSeq(rules.steps, Other)
            IN /\ customRoles' = SelectSeq(customRoles, Other)
               /\ rules'.steps =
                    IF kept = <<>>
                    THEN <<ROLES.MANAGER, ROLES.FINANCE, ROLES.DIRECTOR>>
                    ELSE kept]_vars

\* a role was removed that stood twice in the chain, between other steps
C9_Witness ==
  /\ last.op = "removeRole"
  /\ last.cascade.steps = 2
  /\ rules.steps = <<ROLES.FINANCE, ROLES.MANAGER>>
  /\ customRoles = <<>>

(***************************************************************************)
(* C10  Role cascade on the users and on the designated approver role.     *)
(***************************************************************************)
\* C10: after the removal of a custom role X, X is no custom role, no user
\* holds X, every user holds the other roles held before and the same
\* manager, and specificApproverRule.role is CFO if it was X, unchanged
\* otherwise.
C10_RoleCascadeUsers ==
  [][last'.op = "removeRole"
       => \E X \in Range(customRoles) \ Range(BASE_ROLES) :
            /\ X \notin Range(customRoles')
            /\ DOMAIN users' = DOMAIN users
            /\ \A id \in DOMAIN users :
                 /\ X \notin users'[id].roles
                 /\ \A r \in Range(getAllRoles) \ {X} :
                      r \in users'[id].roles <=> r \in users[id].roles
                 /\ users'[id].managerId = users[id].managerId
            /\ rules'.specificApproverRule.role # X
            /\ rules'.specificApproverRule.role =
                 IF rules.specificApproverRule.role = X
                 THEN ROLES.CFO
                 ELSE rules.specificApproverRule.role
            /\ rules'.specificApproverRule.enabled = rules.specificApproverRule.enabled]_vars

\* the removed role was the designated one and was held by a user who holds
\* another role too
C10_Witness ==
  /\ last.op = "removeRole"
  /\ last.cascade.designated
  /\ rules.specificApproverRule.role = ROLES.CFO
  /\ \E id \in last.cascade.users : users[id].roles # {}
  /\ \A id \in DOMAIN users : users[id].roles \subseteq Range(BASE_ROLES)

DecidedAt(e, k) ==
  LET a == e.approvals.steps[k].approvals IN {a[j].userId : j \in DOMAIN a}

\* approved / decided x 100 >= threshold, over the eligible approvers of step
\* k of e who decided
PercentagePass(e, k) ==
  LET decided == EligibleAt(e, k) \cap DecidedAt(e, k)
      approved == EligibleAt(e, k) \cap ApprovedAt(e, k)
  IN /\ rules.percentageRule.enabled
     /\ decided # {}
     /\ Cardinality(approved) * 100
          >= rules.percentageRule.threshold * Cardinality(decided)

\* C12: after a decision that leaves no REJECT at the step and no APPROVE of
\* a designated specific approver in the chain: with hybrid and percentage
\* enabled the step passes once the percentage of the decided eligible
\* approvers is reached; with hybrid disabled the step passes if and only if
\* every eligible approver has approved.
C12_PercentageHybrid ==
  [][\A i \in DOMAIN expenses :
       ( /\ Recorded(i)
         /\ NewDecision(i).decision = "APPROVE"
         /\ ~(rules.specificApproverRule.enabled /\ SpecificHit(expenses'[i])) )
         => LET after == expenses'[i]
                k == StepOf(i)
            IN /\ (rules.hybrid.enabled /\ PercentagePass(after, k))
                    => StepPassed(i)
               /\ ~rules.hybrid.enabled
                    => (StepPassed(i)
                          <=> EligibleAt(after, k) \subseteq ApprovedAt(after, k))]_vars

(***************************************************************************)
(* C13  Eligibility resolution.                                            *)
(***************************************************************************)
\* C13: for every stored expense, the eligible approvers of MANAGER are the
\* manager of the owner if the owner has one and nobody otherwise, whoever
\* holds MANAGER; the eligible approvers of any other role are the users
\* holding it.
C13_EligibilityResolution ==
  \A i \in DOMAIN expenses :
    \A role \in Range(getAllRoles) :
      LET e == expenses[i]
          eligible == eligibleApproverIds(users, e, JsStr(role))
      IN IF role = ROLES.MANAGER
         THEN IF e.userId \in DOMAIN users /\ users[e.userId].managerId # ""
              THEN eligible = {users[e.userId].managerId}
              ELSE eligible = {}
         ELSE eligible = {id \in DOMAIN users : role \in users[id].roles}

\* the owner of the seeded pending expense has no manager any more while a
\* user holds MANAGER, and a custom role has a holder
C13_Witness ==
  /\ "u-emp" \in DOMAIN users
  /\ users["u-emp"].managerId = ""
  /\ \E id \in DOMAIN users : ROLES.MANAGER \in users[id].roles
  /\ \E i \in DOMAIN expenses :
       /\ expenses[i].userId = "u-emp"
       /\ eligibleApproverIds(users, expenses[i], JsStr(ROLES.MANAGER)) = {}
       /\ eligibleApproverIds(users, expenses[i], JsStr("AUDIT")) # {}

(***************************************************************************)
(* C14  isEligibleApprover.                                                *)
(***************************************************************************)
\* C14: for every expense whose cursor is at a step of its chain and every
\* user, the user is an approver of the expense if and only if the user is
\* an eligible approver of the role of that step or holds ADMIN.
C14_IsEligibleApprover ==
  \A i \in DOMAIN expenses :
    \A id \in DOMAIN users :
      LET e == expenses[i]
          k == e.approvals.stepIndex + 1
      IN k \in DOMAIN e.approvals.steps
           => (IsUserApprover(e, id)
                 <=> (id \in EligibleAt(e, k) \/ ROLES.ADMIN \in users[id].roles))

(***************************************************************************)
(* C15  Admin override.                                                    *)
(***************************************************************************)
\* C15: an override of an existing expense, whatever its status, succeeds:
\* the expense gets the target status, its cursor is put at the length of its
\* own chain, exactly one history entry {status, by: adminId} is appended,
\* and the decision lists, like every other expense, stay as they were.
C15_AdminOverride ==
  [][\A expenseId \in ExpenseIds, status \in {"APPROVED", "REJECTED"},
        adminId \in OverrideCallers :
       (last'.op = "adminOverride" /\ adminOverride(expenseId, status, adminId))
         => LET i == FindExpense(expenses, expenseId)
                before == expenses[i]
                after == expenses'[i]
            IN /\ last'.error = ""
               /\ DOMAIN expenses' = DOMAIN expenses
               /\ after.status = status
               /\ after.approvals.stepIndex = Len(before.approvals.steps)
               /\ after.history = Append(before.history, [status |-> status, by |-> adminId])
               /\ after.approvals.steps = before.approvals.steps
               /\ after = [before EXCEPT !.status = status,
                                         !.approvals.stepIndex = after.approvals.stepIndex,
                                         !.history = after.history]
               /\ \A j \in DOMAIN expenses : j # i => expenses'[j] = expenses[j]]_vars

\* an override has rejected an expense whose own chain is not as long as the
\* configured one
C15_Witness ==
  /\ last.op = "adminOverride"
  /\ last.error = ""
  /\ \E i \in DOMAIN expenses :
       LET e == expenses[i]
       IN /\ e.approvals.stepIndex = Len(e.approvals.steps)
          /\ Len(e.history) > 0
          /\ e.history[Len(e.history)].by \in OverrideCallers
          /\ e.history[Len(e.history)].status = "REJECTED"
          /\ e.status = "REJECTED"
          /\ Len(e.approvals.steps) # Len(rules.steps)

(***************************************************************************)
(* C16  Failures leave the expenses unchanged.                             *)
(***************************************************************************)
\* C16: a decision and an override on an id that no expense has both fail
\* with 'Expense not found', and every failing decision call (not found, not
\* pending, no active step) leaves the whole list of expenses as it was.
C16_FailuresLeaveExpenses ==
  [][/\ last'.op = "approveOrReject"
          => \A userId \in DeciderIds, decision \in DecisionInputs :
               approveOrReject(UnknownExpenseId, userId, decision)
                 => last'.error = "Expense not found"
     /\ last'.op = "adminOverride"
          => \A status \in {"APPROVED", "REJECTED"}, adminId \in OverrideCallers :
               adminOverride(UnknownExpenseId, status, adminId)
                 => last'.error = "Expense not found" /\ UNCHANGED expenses
     /\ (last'.op = "approveOrReject" /\ last'.error # "") => UNCHANGED expenses]_vars

\* a decision was refused on a concluded expense after the pending seeded
\* expense had been rejected by a recorded decision
C16_Witness ==
  /\ last.op = "approveOrReject"
  /\ last.error = "Expense is not pending"
  /\ ExpenseOf("x-lunch").status = "REJECTED"
  /\ Len(ExpenseOf("x-lunch").approvals.steps[1].approvals) > 0

(***************************************************************************)
(* C17  The configured chain is never empty.                               *)
(***************************************************************************)
\* C17: the chain of the rules has at least one step in every reachable
\* state, whatever rule edits and role removals happened, and a save of the
\* rules form with no step is refused with an error and leaves the stored
\* rules, percentage, specific-approver and hybrid fields included, as they
\* were.
C17_StepsNeverEmpty ==
  /\ [](Len(rules.steps) > 0)
  /\ [][last'.op = "bindRulesForm"
        => \A pct \in BOOLEAN, spec \in BOOLEAN, hyb \in BOOLEAN :
             \A specRole \in Range(getAllRoles) :
               bindRulesForm(pct, rules.percentageRule.threshold, spec, specRole, hyb, <<>>)
                 => /\ last'.error = "Add at least one approval step before saving."
                    /\ UNCHANGED rules]_vars

\* a save with no step was refused after the rules had been edited
C17_Witness ==
  /\ last.op = "bindRulesForm"
  /\ last.error = "Add at least one approval step before saving."
  /\ rules # DEFAULT_RULES
  /\ Len(rules.steps) > 0

(***************************************************************************)
(* C19  Expenses are never deleted.                                        *)
(***************************************************************************)
\* C19: every expense of the list is still in the list after any operation,
\* company setup included.
C19_ExpensesNeverDeleted ==
  [][\A i \in DOMAIN expenses :
       \E j \in DOMAIN expenses' : expenses'[j].id = expenses[i].id]_vars

(***************************************************************************)
(* C18  Histories and decision lists are append-only.                      *)
(***************************************************************************)
\* a is b, or b with entries dropped from its end
IsPrefix(a, b) == Len(a) <= Len(b) /\ SubSeq(b, 1, Len(a)) = a

\* C18: a submission, a decision, an override or an edit of the rules, the
\* roles or the users keeps every expense, and the history of each is
\* afterwards the history it had with zero or more entries added at the end;
\* the same holds for the decision list of each step of its chain.
C18_AppendOnly ==
  [][last'.op # "handleCompanySetup"
       => \A i \in DOMAIN expenses :
            \E j \in DOMAIN expenses' :
              LET before == expenses[i]
                  after == expenses'[j]
              IN /\ after.id = before.id
                 /\ IsPrefix(before.history, after.history)
                 /\ DOMAIN after.approvals.steps = DOMAIN before.approvals.steps
                 /\ \A k \in DOMAIN before.approvals.steps :
                      IsPrefix(before.approvals.steps[k].approvals,
                               after.approvals.steps[k].approvals)]_vars

\* an override was recorded after a decision had concluded the expense: the
\* history has three entries and a decision list is not empty
C18_Witness ==
  /\ last.op = "adminOverride"
  /\ last.error = ""
  /\ \E i \in DOMAIN expenses :
       LET e == expenses[i]
       IN /\ Len(e.history) >= 3
          /\ e.history[1] = [status |-> "PENDING", by |-> e.userId]
          /\ \E k \in DOMAIN e.approvals.steps : Len(e.approvals.steps[k].approvals) > 0

(***************************************************************************)
(* C20  Calls on different expenses from two tabs.                         *)
(***************************************************************************)
\* C20: when two tabs have each completed a decision or an override, on two
\* different expenses, the stored list holds for each tab the expense as that
\* tab's call left it, however the reads and writes of the two calls were
\* interleaved.
C20_Independence ==
  (/\ \A t \in Tabs : tabs[t].pc = "done" /\ tabs[t].error = ""
   /\ tabs["tab-a"].call.expenseId # tabs["tab-b"].call.expenseId)
    => \A t \in Tabs :
         LET id == tabs[t].call.expenseId
         IN /\ id \in ExpenseIds
            /\ ExpenseOf(id) = tabs[t].local[FindExpense(tabs[t].local, id)]

(***************************************************************************)
(* C21  User deletion cascade.                                             *)
(***************************************************************************)
\* C21: a deletion removes exactly one user d; afterwards no remaining user
\* has d as manager (each such reference is cleared to ''), no other field
\* of a remaining user has changed, and an expense whose owner had d as
\* manager has no eligible approver for MANAGER.
C21_UserDeletionCascade ==
  [][(last'.op = "deleteUser" /\ last'.error = "")
       => \E d \in DOMAIN users :
            /\ DOMAIN users' = DOMAIN users \ {d}
            /\ \A x \in DOMAIN users' :
                 /\ users'[x].managerId # d
                 /\ users'[x].roles = users[x].roles
                 /\ users'[x].managerId =
                      IF users[x].managerId = d THEN "" ELSE users[x].managerId
            /\ \A i \in DOMAIN expenses' :
                 LET e == expenses'[i]
                 IN (e.userId \in DOMAIN users /\ users[e.userId].managerId = d)
                      => eligibleApproverIds(users', e, JsStr(ROLES.MANAGER)) = {}]_vars

\* the seeded manager was deleted and the employee who reported to them, owner
\* of an expense, has no manager left
C21_Witness ==
  /\ last.op = "deleteUser"
  /\ last.error = ""
  /\ "u-manager" \notin DOMAIN users
  /\ "u-emp" \in DOMAIN users
  /\ users["u-emp"].managerId = ""
  /\ \E i \in DOMAIN expenses :
       /\ expenses[i].userId = "u-emp"
       /\ eligibleApproverIds(users, expenses[i], JsStr(ROLES.MANAGER)) = {}

(***************************************************************************)
(* C22  Evaluation uses the snapshot.                                      *)
(***************************************************************************)
\* the expense after approveOrReject(e.id, userId, decision) when the stored
\* rules are r
DecisionUnder(r, e, userId, decision) ==
  LET k == IF build = "app" THEN approverEntry(e) ELSE approverEntryLegacy(r, e)
      entry == [userId |-> userId,
                decision |-> IF decision = "APPROVE" THEN "APPROVE" ELSE "REJECT"]
  IN IF k = 0 THEN e
     ELSE LET pushed == [e EXCEPT !.approvals.steps[k].approvals = Append(@, entry)]
          IN IF build = "app" THEN rulesEval(getUsers, pushed)
             ELSE rulesEvalLegacy(getUsers, r, pushed)

AcceptsAnyCaller(outcome(_)) ==
  last'.op = "approveOrReject" =>
  \A expenseId \in ExpenseIds :
    (/\ ExpenseOf(expenseId).status = "PENDING"
     /\ ActiveStep(ExpenseOf(expenseId)) # 0) =>
  \A userId \in DeciderIds, decision \in DecisionInputs :
    approveOrReject(expenseId, userId, decision)
      => LET i == FindExpense(expenses, expenseId)
             k == ActiveStep(expenses[i])
             before == expenses[i].approvals.steps[k].approvals
             after == expenses'[i].approvals.steps[k].approvals
         IN /\ last'.error = ""
            /\ Len(after) = Len(before) + 1
            /\ after[Len(after)].userId = userId
            /\ (/\ decision = "REJECT"
                /\ userId \notin EligibleAt(expenses[i], k)
                /\ ~Holds(userId, ROLES.ADMIN))
                 => expenses'[i].status = outcome(expenses[i])

Rejected(e) == "REJECTED"
RejectedUnlessSpecificHit(e) ==
  IF build = "legacy" /\ rules.specificApproverRule.enabled /\ SpecificHit(e)
  THEN "APPROVED"
  ELSE "REJECTED"

\* C23: for a PENDING expense with an active step, approveOrReject accepts
\* and records a decision from any user id, one that is neither in the
\* eligible set nor ADMIN included, and a REJECT from such a user makes the
\* expense REJECTED.
C23_NoEligibilityEnforcement == [][AcceptsAnyCaller(Rejected)]_vars

\* C23, amended: as above, except that in the older script, when
\* specificApproverRule is enabled and the chain holds an APPROVE by a user
\* who holds the designated role, the REJECT leaves the expense APPROVED.
C23_AnyCallerRejectUnlessSpecificHit ==
  [][AcceptsAnyCaller(RejectedUnlessSpecificHit)]_vars

\* the seeded pending expense was rejected at its manager step by the finance
\* user, who does not manage its owner and is not an admin
C23_Witness ==
  /\ last.op = "approveOrReject"
  /\ last.error = ""
  /\ \E i \in DOMAIN expenses :
       LET e == expenses[i]
           a == e.approvals.steps[1].approvals
       IN /\ e.id = "x-lunch"
          /\ e.status = "REJECTED"
          /\ e.approvals.stepIndex = 0
          /\ Len(a) = 1
          /\ a[1] = [userId |-> "u-fin", decision |-> "REJECT"]
          /\ "u-fin" \notin EligibleAt(e, 1)
          /\ ~Holds("u-fin", ROLES.ADMIN)

(***************************************************************************)
(* C24  The engine of app.js: unanimity only.                              *)
(***************************************************************************)
\* C24: in app.js, an APPROVE recorded at the active step passes the step if
\* and only if every eligible approver of the step's role has approved
\* there, and the status and the cursor it leaves are the same whatever the
\* percentage, specific-approver and hybrid fields of the rules are.
C24_UnanimityOnly ==
  [][build = "app" =>
       \A i \in DOMAIN expenses :
         (Recorded(i) /\ NewDecision(i).decision = "APPROVE")
           => /\ StepPassed(i) <=>
                   EligibleAt(expenses[i], StepOf(i))
                     \subseteq ApprovedAt(expenses'[i], StepOf(i))
              /\ \A pct \in BOOLEAN, spec \in BOOLEAN, hyb \in BOOLEAN :
                   LET r == [rules EXCEPT !.percentageRule.enabled = pct,
                                          !.specificApproverRule.enabled = spec,
                                          !.hybrid.enabled = hyb]
                       there == DecisionUnder(r, expenses[i], NewDecision(i).userId,
                                              "APPROVE")
                   IN /\ there.status = expenses'[i].status
                      /\ there.approvals.stepIndex =
                           expenses'[i].approvals.stepIndex]_vars

\* the part about the rule fields alone, for any decision: it holds
C24_RuleFieldsIgnored ==
  [][build = "app" =>
       \A i \in DOMAIN expenses :
         Recorded(i)
           => \A pct \in BOOLEAN, spec \in BOOLEAN, hyb \in BOOLEAN :
                LET r == [rules EXCEPT !.percentageRule.enabled = pct,
                                       !.specificApproverRule.enabled = spec,
                                       !.hybrid.enabled = hyb]
                    there == DecisionUnder(r, expenses[i], NewDecision(i).userId,
                                           NewDecision(i).decision)
                IN /\ there.status = expenses'[i].status
                   /\ there.approvals.stepIndex = expenses'[i].approvals.stepIndex]_vars

(***************************************************************************)
(* C25  Repeated decisions of one user.                                    *)
(***************************************************************************)
\* the evaluator of the running script
RulesEvalHere(e) ==
  IF build = "app" THEN rulesEval(getUsers, e)
  ELSE rulesEvalLegacy(getUsers, getRules, e)

\* C25: when a decision is recorded at a step that holds repeated decisions
\* of a user, the step passes or not, and the expense gets the status and
\* cursor, exactly as if each repeated decision had been given once.
C25_Deduplication ==
  [][\A i \in DOMAIN expenses :
       Recorded(i)
         => LET k == StepOf(i)
                list == expenses'[i].approvals.steps[k].approvals
                once == RulesEvalHere(
                          [expenses[i] EXCEPT !.approvals.steps[k].approvals = Dedup(list)])
            IN /\ expenses'[i].status = once.status
               /\ expenses'[i].approvals.stepIndex = once.approvals.stepIndex]_vars

\* an APPROVE was recorded at a step where the same user had approved before,
\* and no one else has decided there
C25_Witness ==
  /\ last.op = "approveOrReject"
  /\ last.error = ""
  /\ \E i \in DOMAIN expenses :
       LET e == expenses[i]
       IN \E k \in DOMAIN e.approvals.steps :
            LET list == e.approvals.steps[k].approvals
            IN /\ Len(list) >= 2
               /\ \A j \in DOMAIN list : list[j] = [userId |-> "u-fin", decision |-> "APPROVE"]

(***************************************************************************)
(* C26  State-machine transitions.                                         *)
(***************************************************************************)
\* an accepted decision takes a PENDING expense at cursor c to PENDING at c
\* or at c + 1 below the length of its chain, to REJECTED, or to APPROVED;
\* the cursor moves by one step at most, unless jump(before, after) allows
\* more; and no operation moves the cursor of an expense backwards
Transitions(jump(_, _)) ==
  /\ \A i \in DOMAIN expenses :
       Recorded(i)
         => LET before == expenses[i]
                after == expenses'[i]
                c == before.approvals.stepIndex
                d == after.approvals.stepIndex
            IN /\ before.status = "PENDING"
               /\ \/ after.status = "PENDING" /\ d \in {c, c + 1}
                       /\ d < Len(before.approvals.steps)
                  \/ after.status = "REJECTED" /\ d = c
                  \/ after.status = "APPROVED" /\ (d \in {c, c + 1} \/ jump(before, after))
  /\ \A i \in DOMAIN expenses, j \in DOMAIN expenses' :
       expenses'[j].id = expenses[i].id
         => expenses'[j].approvals.stepIndex >= expenses[i].approvals.stepIndex

NoJump(before, after) == FALSE
\* the specific-approver conclusion of the older script
SpecificJump(before, after) ==
  /\ build = "legacy"
  /\ rules.specificApproverRule.enabled
  /\ SpecificHit(after)
  /\ after.approvals.stepIndex = Len(rules.steps)

\* C26: every accepted decision takes an expense from PENDING(i) to one of
\* PENDING(i), PENDING(i+1) with i+1 < N, APPROVED or REJECTED; the cursor
\* never decreases under any operation and a single decision never advances
\* it by more than one step, even when the following steps have no eligible
\* approver.
C26_Transitions == [][Transitions(NoJump)]_vars

\* C26, amended: as above, except that in the older script the
\* specific-approver conclusion puts the cursor at the length of the chain,
\* whatever step the expense was at.
C26_TransitionsButSpecificJump == [][Transitions(SpecificJump)]_vars

\* a decision moved the seeded pending expense from its second step to its
\* third, which has no eligible approver since the director was deleted
C26_Witness ==
  /\ last.op = "approveOrReject"
  /\ last.error = ""
  /\ "u-dir" \notin DOMAIN users
  /\ \E i \in DOMAIN expenses :
       LET e == expenses[i]
       IN /\ e.id = "x-lunch"
          /\ e.status = "PENDING"
          /\ e.approvals.stepIndex = 2
          /\ EligibleAt(e, 3) = {}
          /\ e.approvals.steps[3].approvals = <<>>

(***************************************************************************)
(* C27  'No active approval step' is unreachable.                          *)
(***************************************************************************)
\* C27: in every reachable state a PENDING expense has a step record at its
\* cursor (0 <= stepIndex < length of its chain, and approverEntry finds the
\* record), and no call of approveOrReject has failed with 'No active
\* approval step'.
C27_NoActiveStepUnreachable ==
  /\ \A i \in DOMAIN expenses :
       LET e == expenses[i]
       IN e.status = "PENDING"
            => /\ e.approvals.stepIndex >= 0
               /\ e.approvals.stepIndex < Len(e.approvals.steps)
               /\ ActiveStep(e) = e.approvals.stepIndex + 1
  /\ last.error # "No active approval step"

\* a decision was accepted and left the seeded pending expense waiting at the
\* last step of its chain
C27_Witness ==
  /\ last.op = "approveOrReject"
  /\ last.error = ""
  /\ "u-dir" \in DOMAIN users
  /\ \E i \in DOMAIN expenses :
       LET e == expenses[i]
       IN /\ e.id = "x-lunch"
          /\ e.status = "PENDING"
          /\ e.approvals.stepIndex = Len(e.approvals.steps) - 1
          /\ ActiveStep(e) = Len(e.approvals.steps)

(***************************************************************************)
(* C28  Every decision value but 'APPROVE' is recorded as REJECT.          *)
(***************************************************************************)
\* a call on a PENDING expense with an active step whose decision argument
\* is not the exact string 'APPROVE' is accepted, its entry is stored with
\* decision REJECT, and the expense ends with status outcome(expense)
RecordsAsReject(outcome(_)) ==
  last'.op = "approveOrReject" =>
  \A expenseId \in ExpenseIds :
    (/\ ExpenseOf(expenseId).status = "PENDING"
     /\ ActiveStep(ExpenseOf(expenseId)) # 0) =>
  \A userId \in DeciderIds, decision \in DecisionInputs \ {"APPROVE"} :
    approveOrReject(expenseId, userId, decision)
      => LET i == FindExpense(expenses, expenseId)
             k == ActiveStep(expenses[i])
             after == expenses'[i].approvals.steps[k].approvals
         IN /\ last'.error = ""
            /\ after[Len(after)] = [userId |-> userId, decision |-> "REJECT"]
            /\ expenses'[i].status = outcome(expenses[i])

\* C28: approveOrReject records any decision value other than the exact
\* string 'APPROVE' as REJECT, so a call with a missing or unrecognised value
\* on a PENDING expense is accepted and makes the expense REJECTED.
C28_OtherValuesReject == [][RecordsAsReject(Rejected)]_vars

\* C28, amended: as above, except that in the older script, when
\* specificApproverRule is enabled and the chain holds an APPROVE by a user
\* who holds the designated role, the entry is stored as REJECT and the
\* expense becomes APPROVED.
C28_OtherValuesRejectUnlessSpecificHit ==
  [][RecordsAsReject(RejectedUnlessSpecificHit)]_vars

\* a call whose decision argument was missing or differed from 'APPROVE' in
\* case was accepted, stored as a REJECT and rejected the seeded pending
\* expense
C28_Witness ==
  /\ last.op = "approveOrReject"
  /\ last.error = ""
  /\ last.decision \in {"", "approve"}
  /\ \E i \in DOMAIN expenses :
       LET e == expenses[i]
           a == e.approvals.steps[e.approvals.stepIndex + 1].approvals
       IN /\ e.id = "x-lunch"
          /\ e.status = "REJECTED"
          /\ Len(a) > 0
          /\ a[Len(a)].decision = "REJECT"

(***************************************************************************)
(* C29  User, role and rule operations leave the expenses alone.           *)
(***************************************************************************)
\* the operations on users, roles and rules, by the name they leave in last
SettingsOps ==
  {"userFormSubmit", "deleteUser", "handleAddRole", "rolesListClick",
   "bindRulesForm"}

\* the eligible approvers of the active step of a pending expense, with the
\* users as this step leaves them
EligibleAfter(e) ==
  eligibleApproverIds(users', e,
                      JsStr(e.approvals.steps[e.approvals.stepIndex + 1].role))

IsPending(expenseId) ==
  expenseId \in ExpenseIds /\ ExpenseOf(expenseId).status = "PENDING"

IsApproved(expenseId) ==
  expenseId \in ExpenseIds /\ ExpenseOf(expenseId).status = "APPROVED"

\* the decisions stored in the chain of an expense
RECURSIVE DecisionCount(_, _)
DecisionCount(e, k) ==
  IF k = 0 THEN 0
  ELSE Len(e.approvals.steps[k].approvals) + DecisionCount(e, k - 1)

\* C30: with users, roles and rules unchanged, a non-empty eligible set at
\* every step, no REJECT and no override, and every eligible approver of the
\* active step approving in the end (weak fairness), a PENDING expense is
\* eventually APPROVED, and its chain never holds more decisions than steps.
C30_EventuallyApproved ==
  /\ \A expenseId \in LiveExpenseIds : IsPending(expenseId) ~> IsApproved(expenseId)
  /\ [](\A i \in DOMAIN expenses :
          DecisionCount(expenses[i], Len(expenses[i].approvals.steps))
            <= Len(expenses[i].approvals.steps))

\* the seeded pending expense and one submitted after it were both approved
\* by the approvers of their steps
C30_Witness ==
  /\ last.op = "approveOrReject"
  /\ last.error = ""
  /\ IsApproved("x-lunch")
  /\ IsApproved(NewExpenseIds[1])
  /\ ExpenseOf("x-lunch").history[Len(ExpenseOf("x-lunch").history)].status = "APPROVED"

====
